---- MODULE Spec2Model ----
(***************************************************************************)
(* Verification model of the hybrid RAG parser: the in-process query       *)
(* cache (src/src/api/cache.py), the durable cache backend, the query      *)
(* engine and its prompt (src/src/query/query.py), the /api/query and      *)
(* /api/search handlers (src/src/api/routes/query.py), the deletion of a   *)
(* document (src/src/api/routes/documents.py), the document processor      *)
(* (src/src/ingestion/ingest.py), the ingestion pipeline                   *)
(* (src/run_pipeline.py) and the result optimizer                          *)
(* (src/src/api/optimization.py).                                          *)
(*                                                                         *)
(* A string whose inside matters (HTML, element text, the prompt) is the   *)
(* sequence of its tokens.                                                 *)
(*                                                                         *)
(* Conventions.  Python's None is the empty tuple <<>> and a present value *)
(* x is <<x>>, so that an optional value always is a tuple.  time.time()   *)
(* is the integer variable now.  The hit/miss statistics of the cache      *)
(* classes are only read by get_stats and are not part of the state.       *)
(***************************************************************************)
EXTENDS Integers, Sequences, FiniteSets, TLC

\* ------------------------------------------------------------------ bounds
MaxEntries == 2     \* max_entries given to InMemoryCache.__init__
MaxTime == 3        \* last instant of the simulated clock
MaxTTL == 1         \* largest ttl_seconds passed to set

None == <<>>
Some(x) == <<x>>
\* Python truthiness of an optional number / an optional string.
TruthyNum(opt) == opt # None /\ opt[1] # 0
TruthyStr(opt) == opt # None /\ opt[1] # ""

CacheKeys == {"k1", "k2", "k3"}
CacheValues == {"v1", "v2"}
TTLs == {0, MaxTTL}

VARIABLES
  now,          \* time.time()
  cache,        \* InMemoryCache.cache: the dict, as the sequence of its items in insertion order
  max_entries,  \* InMemoryCache.max_entries
  lastOp,       \* the cache call that returned last, with its result
  watched,      \* the key whose set calls are recorded (any key, chosen at the start)
  lastSet,      \* the latest set call on the watched key
  mongo,        \* the document_tables collection, in natural (insertion) order
  qdrant,       \* the document_chunks collection: the payloads of its points
  askPc,        \* where QueryEngine.ask stands
  askArgs,      \* the arguments of the running ask: question and debug
  vector_context, \* ask: the payloads search_vectors returned, best first
  source_file,  \* ask: the file the table search is scoped to, or None
  table_context,  \* ask: the records search_tables returned
  answer,       \* ask: the value returned
  llm,          \* the outcome of the LLM call of the running ask
  calls,        \* the store and LLM calls issued for the running request, in order
  ttl_seconds,  \* QueryCache.ttl_seconds
  reqPc,        \* where hybrid_query stands
  req,          \* the QueryRequest being handled
  cached_result,  \* hybrid_query: what get_query_cache returned
  response,     \* hybrid_query: the QueryResponse returned
  wrote,        \* the running request called set_query_cache
  fresh,        \* the (question, file_filter) of completed requests whose entry was
                \* stored and neither cleared nor evicted since
  live,         \* the unexpired entry the running request could find at its lookup
  started,      \* QueryCache.__init__ has run
  backend,      \* QueryCache.backend: "redis" or "memory"
  available,    \* RedisCache.available
  redisDb,      \* the keys the Redis server holds, with value and expiry instant
  redisOp,      \* the RedisCache call that returned last, with its result
  reachable,    \* the Redis server answered the ping and every call so far
  prompt,       \* ask: the prompt sent to the LLM, or None
  pdfPc,        \* where process_pdf stands
  pdf_args,     \* process_pdf: its arguments and what the file system says of the path
  partition_calls, \* process_pdf: the calls of partition_pdf, each with its strategy and outcome
  elements,     \* process_pdf: the elements partition_pdf returned
  process_result,  \* process_pdf: the exception raised, or the two lists returned
  table_locations, \* DocumentProcessor.table_locations: kept by the instance between calls
  pdf_files,    \* run_pipeline: the files still to be handled, in listing order
  handled,      \* run_pipeline: the files whose loop iteration has ended, with its outcome
  args,         \* the arguments of the function under study
  ret           \* its return value, or None before it returns

storeVars == <<mongo, qdrant>>
askVars == <<askPc, askArgs, vector_context, source_file, table_context, answer, llm, calls>>
backendVars == <<started, backend, available, redisDb, redisOp, reachable>>
reqVars == <<ttl_seconds, reqPc, req, cached_result, response, wrote, fresh, live>>
cacheVars == <<cache, max_entries, lastOp, watched, lastSet>>
ingestVars == <<pdfPc, pdf_args, partition_calls, elements, process_result, table_locations>>
pipeVars == <<pdf_files, handled>>
fnVars == <<args, ret>>
extVars == <<pdfPc, pdf_args, partition_calls, elements, process_result, table_locations,
             pdf_files, handled, args, ret>>
vars == <<now, cache, max_entries, lastOp, watched, lastSet, mongo, qdrant,
          askPc, askArgs, vector_context, source_file, table_context, answer, llm, calls,
          ttl_seconds, reqPc, req, cached_result, response, wrote, fresh, live,
          started, backend, available, redisDb, redisOp, reachable, prompt,
          pdfPc, pdf_args, partition_calls, elements, process_result, table_locations,
          pdf_files, handled, args, ret>>

\* ------------------------------------------------- the dict of InMemoryCache
DictKeys(d) == {d[i].key : i \in 1..Len(d)}
DictHas(d, k) == k \in DictKeys(d)
DictIndex(d, k) == CHOOSE i \in 1..Len(d) : d[i].key = k
DictGet(d, k) == d[DictIndex(d, k)]
DictDel(d, k) == SelectSeq(d, LAMBDA e : e.key # k)

\* d[k] = entry: a present key keeps its place in the iteration order, a new
\* key goes last.
DictPut(d, k, entry) ==
  IF DictHas(d, k)
    THEN [i \in 1..Len(d) |-> IF d[i].key = k THEN entry ELSE d[i]]
    ELSE Append(d, entry)

\* min(self.cache.keys(), key=lambda k: self.cache[k]["created_at"]): the
\* first key, in iteration order, among those of least created_at.
OldestKey(d) ==
  LET i == CHOOSE i \in 1..Len(d) :
             /\ \A j \in 1..Len(d) : d[i].created_at <= d[j].created_at
             /\ \A j \in 1..(i - 1) : d[j].created_at > d[i].created_at
  IN d[i].key

\* entry["expires_at"] and entry["expires_at"] < time.time()
IsExpired_never(entry, t) == FALSE
IsExpired(entry, t) == TruthyNum(entry.expires_at) /\ entry.expires_at[1] < t

\* InMemoryCache.get: the value returned (None on a miss).
InMemoryCache_get_result(d, k, t) ==
  IF ~DictHas(d, k) THEN None
  ELSE IF IsExpired(DictGet(d, k), t) THEN None
  ELSE Some(DictGet(d, k).value)

\* InMemoryCache.get: the dict it leaves (an expired entry is deleted).
InMemoryCache_get_dict(d, k, t) ==
  IF DictHas(d, k) /\ IsExpired(DictGet(d, k), t) THEN DictDel(d, k) ELSE d

\* The entry InMemoryCache.set builds.
NewEntry(k, v, ttl, t) ==
  [key |-> k, value |-> v, created_at |-> t,
   expires_at |-> IF ttl > 0 THEN Some(t + ttl) ELSE None]

\* InMemoryCache.set: the dict it leaves.
InMemoryCache_set_noevict(d, m, k, v, ttl, t) == DictPut(d, k, NewEntry(k, v, ttl, t))
InMemoryCache_set_keepfirst(d, m, k, v, ttl, t) ==
  IF DictHas(d, k) THEN d ELSE Append(d, NewEntry(k, v, ttl, t))
InMemoryCache_set_dict(d, m, k, v, ttl, t) ==
  LET d1 == IF Len(d) >= m THEN DictDel(d, OldestKey(d)) ELSE d
  IN DictPut(d1, k, NewEntry(k, v, ttl, t))

\* InMemoryCache.delete
InMemoryCache_delete_result(d, k) == DictHas(d, k)
InMemoryCache_delete_dict(d, k) == DictDel(d, k)

\* InMemoryCache.set raises when min() is given no key (a full cache that is
\* empty, max_entries <= 0); no other statement of the class can raise.
InMemoryCache_set_raises(d, m) == Len(d) >= m /\ Len(d) = 0

NoOp == [op |-> "none", key |-> "", had |-> FALSE, full |-> FALSE, result |-> None,
         imm |-> FALSE, raised |-> FALSE]

\* -------------------------------------------------- stores and QueryEngine
MaxTables == 6      \* most records the table store holds
MaxPoints == 3      \* most points the vector index holds

TableLimit == 5     \* search_tables: find(query_filter).limit(5)
VectorLimit == 3    \* search_vectors: search(..., limit=3)

Files == {"X.pdf", "Y.pdf"}
Questions == {"q"}
LLMAnswers == {"a1"}
ErrorAnswer == "There was an error generating the answer."

\* The documents ingested: how many tables and how many text chunks each has.
DocTables == [f \in Files |-> IF f = "X.pdf" THEN 4 ELSE 2]
DocChunks == [f \in Files |-> IF f = "X.pdf" THEN 2 ELSE 1]

\* A point written to the collection by another producer: its payload has no
\* source_filename.
ForeignPayload == [text |-> "foreign", chunk_index |-> 0]

\* dict.get(name, default) as an optional value.
PyGet(rec, name) == IF name \in DOMAIN rec THEN Some(rec[name]) ELSE None

Min(a, b) == IF a <= b THEN a ELSE b
Take(seq, n) == SubSeq(seq, 1, Min(n, Len(seq)))

\* MongoConnector.insert_tables: every record gets source_filename.
TableRecords(f) ==
  [i \in 1..DocTables[f] |-> [table_id |-> i - 1, source_filename |-> f]]

\* EmbeddingModel.prepare_qdrant_points: the payloads of the points of f.
ChunkPayloads(f) ==
  [i \in 1..DocChunks[f] |-> [text |-> f, source_filename |-> f, chunk_index |-> i - 1]]

\* QueryEngine.search_vectors: the index ranks by similarity to the embedded
\* question, which is opaque here: any ranking of the points is possible, cut
\* to the limit.
VectorSearchResults(points) ==
  LET n == Min(VectorLimit, Len(points))
      picks == {p \in [1..n -> 1..Len(points)] :
                  \A i, j \in 1..n : i # j => p[i] # p[j]}
  IN {[i \in 1..n |-> points[p[i]]] : p \in picks}

\* QueryEngine.search_tables
search_tables_unfiltered(tables, file_filter) == Take(tables, TableLimit)
search_tables(tables, file_filter) ==
  LET matching == IF TruthyStr(file_filter)
                    THEN SelectSeq(tables, LAMBDA t : t.source_filename = file_filter[1])
                    ELSE tables
  IN Take(matching, TableLimit)

\* QueryEngine.ask, step 2: the source file of the most relevant chunk.
AskSourceFile_anyrank(vc) ==
  LET named == SelectSeq(vc, LAMBDA c : PyGet(c, "source_filename") # None)
  IN IF named = <<>> THEN None ELSE PyGet(named[1], "source_filename")
AskSourceFile(vc) ==
  IF vc # <<>> THEN PyGet(vc[1], "source_filename") ELSE None

\* QueryEngine.ask, step 6: what the LLM call leaves.
AskAfterLLM_reraise(outcome, a) ==
  IF outcome = "ok" THEN [pc |-> "returned", answer |-> Some(a)]
  ELSE [pc |-> "raised", answer |-> None]
AskAfterLLM(outcome, a) ==
  IF outcome = "ok" THEN [pc |-> "returned", answer |-> Some(a)]
  ELSE [pc |-> "returned", answer |-> Some(ErrorAnswer)]

StoreIdle == mongo = <<>> /\ qdrant = <<>>
AskIdle ==
  /\ askPc = "idle"
  /\ askArgs = [question |-> "", debug |-> FALSE]
  /\ vector_context = <<>>
  /\ source_file = None
  /\ table_context = <<>>
  /\ answer = None
  /\ llm = "none"
  /\ calls = <<>>
  /\ prompt = None

\* ------------------------------------------------- strings and HTML text
\* A Python string whose inside matters is the sequence of its tokens: a
\* token is a tag, a run of one whitespace character, or a word.
WhiteSpace == {" ", "\n", "\t"}
TrOpen == {"<tr>", "<tr class=r>"}          \* what <tr[^>]*> matches
TrClose == {"</tr>"}
CellOpen == {"<td>", "<th>", "<thead>"}     \* what <t[hd][^>]*> matches
CellClose == {"</td>", "</th>"}             \* what </t[hd]> matches
TableOpen == {"<table>"}
Tags == TrOpen \cup TrClose \cup CellOpen \cup CellClose \cup TableOpen
        \cup {"</table>", "</thead>", "<tbody>", "</tbody>", "<b>", "</b>"}

RECURSIVE LStrip(_)
LStrip(s) == IF s # <<>> /\ Head(s) \in WhiteSpace THEN LStrip(Tail(s)) ELSE s
RECURSIVE RStrip(_)
RStrip(s) ==
  IF s # <<>> /\ s[Len(s)] \in WhiteSpace THEN RStrip(SubSeq(s, 1, Len(s) - 1)) ELSE s
\* str.strip()
Strip(s) == RStrip(LStrip(s))

\* re.sub(r'\s+', ' ', s)
RECURSIVE CollapseWs(_)
CollapseWs(s) ==
  IF s = <<>> THEN <<>>
  ELSE IF Head(s) \in WhiteSpace THEN <<" ">> \o CollapseWs(LStrip(s))
  ELSE <<Head(s)>> \o CollapseWs(Tail(s))

\* re.sub(r'<[^>]+>', repl, s), repl being '' or ' '
SubTags(s, repl) ==
  LET F[i \in 0..Len(s)] ==
        IF i = 0 THEN <<>>
        ELSE F[i - 1] \o (IF s[i] \in Tags THEN repl ELSE <<s[i]>>)
  IN F[Len(s)]

\* The first index from i on whose token is in set, or 0.
RECURSIVE IndexFrom(_, _, _)
IndexFrom(s, i, set) ==
  IF i > Len(s) THEN 0 ELSE IF s[i] \in set THEN i ELSE IndexFrom(s, i + 1, set)

\* re.findall(open(.*?)close, s): the non-overlapping leftmost matches, each
\* ending at the first close after its open.
RECURSIVE FindAll(_, _, _, _)
FindAll(s, i, open, close) ==
  LET a == IndexFrom(s, i, open)
      b == IF a = 0 THEN 0 ELSE IndexFrom(s, a + 1, close)
  IN IF a = 0 \/ b = 0 THEN <<>>
     ELSE <<SubSeq(s, a + 1, b - 1)>> \o FindAll(s, b + 1, open, close)

\* sep.join(parts)
RECURSIVE Join(_, _)
Join(parts, sep) ==
  IF parts = <<>> THEN <<>>
  ELSE IF Len(parts) = 1 THEN parts[1]
  ELSE parts[1] \o sep \o Join(Tail(parts), sep)

\* QueryEngine.html_table_to_markdown
MarkdownRow(cells) == <<"| ">> \o Join(cells, <<" | ">>) \o <<" |">>
RowCells(row) ==
  LET cells == FindAll(row, 1, CellOpen, CellClose)
  IN [c \in 1..Len(cells) |-> Strip(SubTags(cells[c], <<>>))]
MarkdownLines_noseparator(rows) == [i \in 1..Len(rows) |-> MarkdownRow(RowCells(rows[i]))]
MarkdownLines(rows) ==
  LET line(i) == MarkdownRow(RowCells(rows[i]))
      sep == MarkdownRow([c \in 1..Len(RowCells(rows[1])) |-> <<"---">>])
  IN <<line(1), sep>> \o [i \in 1..(Len(rows) - 1) |-> line(i + 1)]
html_table_to_markdown_headeronly(html_content) ==
  LET normal == CollapseWs(Strip(html_content))
      rows == FindAll(normal, 1, TrOpen, TrClose)
  IN IF rows = <<>> THEN normal ELSE Join(MarkdownLines(<<rows[1]>>), <<"\n">>)
html_table_to_markdown(html_content) ==
  LET normal == CollapseWs(Strip(html_content))
      rows == FindAll(normal, 1, TrOpen, TrClose)
  IN IF rows = <<>> THEN normal ELSE Join(MarkdownLines(rows), <<"\n">>)

\* dict.get(name, default)
PyGetOr(rec, name, default) == IF name \in DOMAIN rec THEN rec[name] ELSE default

\* QueryEngine.format_text_context
NoTextSentinel == "No relevant text chunks found."
ChunkHeader(i, source) == "[Chunk " \o ToString(i) \o " from " \o source \o "]"
format_text_context(vc) ==
  IF vc = <<>> THEN <<NoTextSentinel>>
  ELSE Join([i \in 1..Len(vc) |->
               <<ChunkHeader(i, PyGetOr(vc[i], "source_filename", "unknown")), "\n",
                 PyGetOr(vc[i], "text", "")>>],
            <<"\n\n">>)

\* QueryEngine.format_table_context
NoTablesSentinel == "No relevant tables found."
TableHeader(i, table_id, source) ==
  "[Table " \o ToString(i) \o " - " \o ToString(table_id) \o " from " \o source \o "]"
TableContent(table) ==
  LET content == PyGetOr(table, "content", <<>>)
  IN IF PyGetOr(table, "content_type", "unknown") = "html"
        /\ \E i \in 1..Len(content) : content[i] \in TableOpen
       THEN html_table_to_markdown(content)
       ELSE content
format_table_context_nosentinel(tc) ==
  Join([i \in 1..Len(tc) |->
          <<TableHeader(i, PyGetOr(tc[i], "table_id", i),
                        PyGetOr(tc[i], "source_filename", "unknown")), "\n">>
          \o TableContent(tc[i])],
       <<"\n\n">>)
format_table_context(tc) ==
  IF tc = <<>> THEN <<NoTablesSentinel>>
  ELSE Join([i \in 1..Len(tc) |->
               <<TableHeader(i, PyGetOr(tc[i], "table_id", i),
                             PyGetOr(tc[i], "source_filename", "unknown")), "\n">>
               \o TableContent(tc[i])],
            <<"\n\n">>)

\* QueryEngine.ask, step 5: the prompt; each fixed part of the template is
\* one token.
RoleFraming == "You are an expert assistant ... based *only* on this provided context."
RuleDocumentContext == "1. DOCUMENT CONTEXT MATTERS"
RuleTableReading == "2. TABLE READING - READ EVERY SINGLE ROW"
RuleListing == "3. LISTING VALUES FROM A COLUMN"
RuleCompleteLists == "4. COMPLETE LISTS"
RulePrecision == "5. PRECISION ... say I could not find the answer in the provided documents."
TextContextHeader == "CONTEXT 1: RELEVANT TEXT CHUNKS"
TableContextHeader == "CONTEXT 2: RELEVANT TABLES"
QuestionHeader == "USER QUESTION:"
AnswerHeader == "YOUR ANSWER:"
BuildPrompt_tablesfirst(formatted_text, formatted_tables, question) ==
  <<RoleFraming, RuleDocumentContext, RuleTableReading, RuleListing, RuleCompleteLists,
    RulePrecision, TableContextHeader>> \o formatted_tables
  \o <<TextContextHeader>> \o formatted_text
  \o <<QuestionHeader, question, AnswerHeader>>
BuildPrompt(formatted_text, formatted_tables, question) ==
  <<RoleFraming, RuleDocumentContext, RuleTableReading, RuleListing, RuleCompleteLists,
    RulePrecision, TextContextHeader>> \o formatted_text
  \o <<TableContextHeader>> \o formatted_tables
  \o <<QuestionHeader, question, AnswerHeader>>

\* ------------------------------------------------ QueryCache, hybrid_query
Filters == {None, Some("None"), Some("X.pdf")}

\* str(file_filter) inside the f-string of the cache key.
PyStr(opt) == IF opt = None THEN "None" ELSE opt[1]

\* QueryCache._make_key; the digest is taken to be injective.
MakeKey(cache_type, value) == cache_type \o ":" \o value
QueryKey(q, f) == MakeKey("query", q \o ":" \o PyStr(f))

\* hybrid_query: if cached_result and not request.debug
UseCached_never(cached, debug) == FALSE
UseCached(cached, debug) == cached # None /\ ~debug

\* hybrid_query: the sources of the response.
Sources(vector_results, table_results) ==
  [i \in 1..Len(vector_results) |->
     [type |-> "text", filename |-> PyGet(vector_results[i], "filename"),
      content |-> PyGet(vector_results[i], "text")]]
  \o
  [i \in 1..Len(table_results) |->
     [type |-> "table", filename |-> PyGet(table_results[i], "filename"),
      content |-> PyGet(table_results[i], "table")]]

\* hybrid_query: the QueryResponse, as model_dump() stores it.
QueryResponse(a, sources, debug) ==
  [answer |-> a, sources |-> sources,
   debug_info |-> IF debug THEN Some("query_time_ms") ELSE None]

NoRequest == [question |-> "", file_filter |-> None, debug |-> FALSE]
ReqIdle ==
  /\ ttl_seconds = 0
  /\ reqPc = "idle"
  /\ req = NoRequest
  /\ cached_result = None
  /\ response = None
  /\ wrote = FALSE
  /\ fresh = {}
  /\ live = None

\* ------------------------------------------------------------- RedisCache
\* The JSON values handed to a backend: dicts and a list.
PyValues == {[type |-> "dict", val |-> "v1"], [type |-> "dict", val |-> "v2"],
             [type |-> "list", val |-> "v1"]}
BackendKeys == {"k1"}

\* json.dumps: a list or tuple is written as an array, a dict as an object;
\* a value that is not JSON raises TypeError (None).
JsonDumps(v) ==
  IF v.type \notin {"dict", "list", "tuple"} THEN None
  ELSE Some([json |-> IF v.type \in {"tuple", "list"} THEN "array" ELSE "object",
             val |-> v.val])
\* json.loads: an array is read as a list.
JsonLoads(j) == [type |-> IF j.json = "array" THEN "list" ELSE "dict", val |-> j.val]

\* The Redis server: GET sees a key until its expiry instant has passed.
RedisServerHas(db, k, t) == \E i \in 1..Len(db) : db[i].key = k /\ db[i].expire_at >= t
RedisServerGet(db, k, t) ==
  IF RedisServerHas(db, k, t) THEN Some(DictGet(db, k).value) ELSE None
\* SETEX refuses an expire time that is not positive.
RedisSetexRefused(ttl) == ttl <= 0
RedisServerSetex(db, k, ttl, j, t) ==
  DictPut(db, k, [key |-> k, value |-> j, expire_at |-> t + ttl])

\* try: ... except Exception: log and return the default.
TryExcept_uncaught(raises, result, default) ==
  IF raises THEN [result |-> default, raised |-> TRUE, failed |-> TRUE]
  ELSE [result |-> result, raised |-> FALSE, failed |-> FALSE]
TryExcept(raises, result, default) ==
  IF raises THEN [result |-> default, raised |-> FALSE, failed |-> TRUE]
  ELSE [result |-> result, raised |-> FALSE, failed |-> FALSE]

Unavailable(default) == [result |-> default, raised |-> FALSE, failed |-> FALSE]

\* RedisCache.get; down: the server call raises.
RedisCache_get(avail, db, k, t, down) ==
  IF ~avail THEN Unavailable(None)
  ELSE TryExcept(down,
                 IF RedisServerGet(db, k, t) # None
                   THEN Some(JsonLoads(RedisServerGet(db, k, t)[1])) ELSE None,
                 None)

\* RedisCache.set: the result, and the keys the server holds afterwards.
RedisCache_set(avail, db, k, v, ttl, t, down) ==
  IF ~avail THEN Unavailable(Some("False"))
  ELSE TryExcept(down \/ JsonDumps(v) = None \/ RedisSetexRefused(ttl),
                 Some("True"), Some("False"))
RedisCache_set_db(avail, db, k, v, ttl, t, down) ==
  IF avail /\ ~down /\ JsonDumps(v) # None /\ ~RedisSetexRefused(ttl)
    THEN RedisServerSetex(db, k, ttl, JsonDumps(v)[1], t)
    ELSE db

\* RedisCache.delete
RedisCache_delete(avail, db, k, t, down) ==
  IF ~avail THEN Unavailable(Some("False"))
  ELSE TryExcept(down, Some(IF RedisServerHas(db, k, t) THEN "True" ELSE "False"),
                 Some("False"))
RedisCache_delete_db(avail, db, k, down) ==
  IF avail /\ ~down THEN DictDel(db, k) ELSE db

\* RedisCache.clear
RedisCache_clear(avail, down) ==
  IF ~avail THEN Unavailable(Some("False"))
  ELSE TryExcept(down, Some("True"), Some("False"))
RedisCache_clear_db(avail, db, down) ==
  IF avail /\ ~down THEN <<>> ELSE db

\* QueryCache.__init__: the backend chosen.
QueryCacheBackend(url_given, redis_importable, ping_ok) ==
  IF url_given /\ redis_importable
    THEN IF ping_ok THEN "redis" ELSE "memory"
    ELSE "memory"

\* Nothing of ingestion, of the pipeline or of the functions has run.
IngestIdle ==
  /\ pdfPc = "idle"
  /\ pdf_args = None
  /\ partition_calls = <<>>
  /\ elements = <<>>
  /\ process_result = None
  /\ table_locations = <<>>
PipeIdle == pdf_files = <<>> /\ handled = <<>>
FnIdle == args = None /\ ret = None
ExtIdle == IngestIdle /\ PipeIdle /\ FnIdle

NoRedisOp == [op |-> "none", result |-> None, raised |-> FALSE, failed |-> FALSE]
BackendIdle ==
  /\ started = FALSE
  /\ backend = "memory"
  /\ available = FALSE
  /\ redisDb = <<>>
  /\ redisOp = NoRedisOp
  /\ reachable = FALSE

\* ------------------------------------------------------------ cache actions
\* Every call runs to completion: the handlers that use the cache are
\* coroutines without an await between their statements, so the calls of
\* concurrent queries interleave call by call.
Tick ==
  /\ now < MaxTime
  /\ now' = now + 1
  /\ lastOp' = NoOp
  /\ UNCHANGED <<extVars, prompt, cache, max_entries, watched, lastSet>>
  /\ UNCHANGED <<extVars, prompt, backendVars, storeVars, askVars, reqVars>>

CacheGet(k) ==
  /\ cache' = InMemoryCache_get_dict(cache, k, now)
  /\ lastOp' = [op |-> "get", key |-> k, had |-> DictHas(cache, k), full |-> (Len(cache) >= max_entries),
                result |-> InMemoryCache_get_result(cache, k, now),
                imm |-> (lastOp.op = "set" /\ lastOp.key = k), raised |-> FALSE]
  /\ UNCHANGED <<extVars, prompt, backendVars, now, max_entries, watched, lastSet, storeVars, askVars, reqVars>>

CacheSet(k, v, ttl) ==
  /\ ~InMemoryCache_set_raises(cache, max_entries)
  /\ cache' = InMemoryCache_set_dict(cache, max_entries, k, v, ttl, now)
  /\ lastOp' = [op |-> "set", key |-> k, had |-> DictHas(cache, k), full |-> (Len(cache) >= max_entries),
                result |-> Some("True"), imm |-> FALSE, raised |-> FALSE]
  /\ lastSet' = IF k = watched
                  THEN Some([value |-> v, ttl |-> ttl, at |-> now,
                             over |-> (DictHas(cache, k) /\ DictGet(cache, k).value # v)])
                  ELSE lastSet
  /\ UNCHANGED <<extVars, prompt, backendVars, now, max_entries, watched, storeVars, askVars, reqVars>>

CacheDelete(k) ==
  /\ cache' = InMemoryCache_delete_dict(cache, k)
  /\ lastOp' = [op |-> "delete", key |-> k, had |-> DictHas(cache, k), full |-> (Len(cache) >= max_entries),
                result |-> Some(IF InMemoryCache_delete_result(cache, k) THEN "True" ELSE "False"),
                imm |-> FALSE, raised |-> FALSE]
  /\ UNCHANGED <<extVars, prompt, backendVars, now, max_entries, watched, lastSet, storeVars, askVars, reqVars>>

CacheClear ==
  /\ cache' = <<>>
  /\ lastOp' = [op |-> "clear", key |-> "", had |-> FALSE, full |-> (Len(cache) >= max_entries),
                result |-> Some("True"), imm |-> FALSE, raised |-> FALSE]
  /\ UNCHANGED <<extVars, prompt, backendVars, now, max_entries, watched, lastSet, storeVars, askVars, reqVars>>

\* The values written under a key: two for the watched key, one for the others.
ValuesOf(k) == IF k = watched THEN CacheValues ELSE {"v1"}

CacheInit ==
  /\ StoreIdle /\ AskIdle /\ ReqIdle /\ BackendIdle /\ ExtIdle
  /\ now = 1
  /\ cache = <<>>
  /\ max_entries = MaxEntries
  /\ lastOp = NoOp
  /\ watched \in CacheKeys
  /\ lastSet = None

CacheNext ==
  \/ Tick
  \/ \E k \in CacheKeys : CacheGet(k)
  \/ \E k \in CacheKeys : \E v \in ValuesOf(k), ttl \in TTLs : CacheSet(k, v, ttl)
  \/ \E k \in CacheKeys : CacheDelete(k)
  \/ CacheClear

SpecCache == CacheInit /\ [][CacheNext]_vars

\* ------------------------------------------------ store and engine actions
\* The locals of a finished ask are gone.
AskReset ==
  /\ askPc' = "idle"
  /\ askArgs' = [question |-> "", debug |-> FALSE]
  /\ vector_context' = <<>>
  /\ source_file' = None
  /\ table_context' = <<>>
  /\ answer' = None
  /\ llm' = "none"
  /\ calls' = <<>>
  /\ prompt' = None

\* MongoConnector.insert_tables(tables of f, f)
InsertTables(f) ==
  /\ Len(mongo) + DocTables[f] <= MaxTables
  /\ mongo' = mongo \o TableRecords(f)
  /\ UNCHANGED <<extVars, prompt, backendVars, now, cacheVars, qdrant, askVars, reqVars>>

\* QdrantConnector.insert_vectors(prepare_qdrant_points(texts of f, f))
InsertVectors(f) ==
  /\ Len(qdrant) + DocChunks[f] <= MaxPoints
  /\ qdrant' = qdrant \o ChunkPayloads(f)
  /\ UNCHANGED <<extVars, prompt, backendVars, now, cacheVars, mongo, askVars, reqVars>>

\* QueryEngine.ask is called (from the command line or a test).
AskStart(q, d) ==
  /\ reqPc = "idle"
  /\ askPc = "idle"
  /\ askPc' = "search_vectors"
  /\ askArgs' = [question |-> q, debug |-> d]
  /\ vector_context' = <<>>
  /\ source_file' = None
  /\ table_context' = <<>>
  /\ answer' = None
  /\ llm' = "none"
  /\ calls' = <<>>
  /\ prompt' = None
  /\ UNCHANGED <<extVars, backendVars, now, cacheVars, storeVars, reqVars>>

\* ask, steps 1 and 2: search_vectors returns, or the store call raises and
\* the exception leaves ask.
AskSearchVectors ==
  /\ askPc = "search_vectors"
  /\ calls' = Append(calls, "vector")
  /\ \/ \E rs \in VectorSearchResults(qdrant) :
          /\ vector_context' = rs
          /\ source_file' = AskSourceFile(rs)
          /\ askPc' = "search_tables"
     \/ /\ askPc' = "raised"
        /\ UNCHANGED <<vector_context, source_file>>
  /\ UNCHANGED <<extVars, prompt, backendVars, now, cacheVars, storeVars, reqVars, askArgs, table_context, answer, llm>>

\* ask, step 3 with a retry: the first exception of search_tables is
\* swallowed and the search is issued again.
AskSearchTables_retry ==
  /\ askPc = "search_tables"
  /\ calls' = Append(calls, "table")
  /\ \/ /\ table_context' = search_tables(mongo, source_file)
        /\ askPc' = "llm"
     \/ /\ askPc' = IF Len(calls) < 2 THEN "search_tables" ELSE "raised"
        /\ UNCHANGED table_context
  /\ UNCHANGED <<extVars, prompt, backendVars, now, cacheVars, storeVars, reqVars, askArgs, vector_context, source_file, answer, llm>>
\* ask, step 3: search_tables scoped to source_file returns, or raises.
AskSearchTables ==
  /\ askPc = "search_tables"
  /\ calls' = Append(calls, "table")
  /\ \/ /\ table_context' = search_tables(mongo, source_file)
        /\ askPc' = "llm"
     \/ /\ askPc' = "raised"
        /\ UNCHANGED table_context
  /\ UNCHANGED <<extVars, prompt, backendVars, now, cacheVars, storeVars, reqVars, askArgs, vector_context, source_file, answer, llm>>

\* ask, steps 4 to 6: the prompt is built and sent; the call returns an
\* answer or fails.
AskLLM ==
  /\ askPc = "llm"
  /\ calls' = Append(calls, "llm")
  /\ prompt' = Some(BuildPrompt(format_text_context(vector_context),
                                format_table_context(table_context), askArgs.question))
  /\ \E outcome \in {"ok", "fail"}, a \in LLMAnswers :
       /\ llm' = outcome
       /\ askPc' = AskAfterLLM(outcome, a).pc
       /\ answer' = AskAfterLLM(outcome, a).answer
  /\ UNCHANGED <<extVars, backendVars, now, cacheVars, storeVars, reqVars, askArgs, vector_context, source_file, table_context>>

\* The caller of ask has its result (or its exception).
AskReturn ==
  /\ reqPc = "idle"
  /\ askPc \in {"returned", "raised"}
  /\ AskReset
  /\ UNCHANGED <<extVars, backendVars, now, cacheVars, storeVars, reqVars>>

\* The collection may hold a point that ingestion did not write.
AskInit ==
  /\ now = 1
  /\ cache = <<>> /\ max_entries = MaxEntries
  /\ lastOp = NoOp /\ watched = "k1" /\ lastSet = None
  /\ mongo = <<>>
  /\ qdrant \in {<<>>, <<ForeignPayload>>}
  /\ AskIdle /\ ReqIdle /\ BackendIdle /\ ExtIdle

AskNext ==
  \/ \E f \in Files : InsertTables(f)
  \/ \E f \in Files : InsertVectors(f)
  \/ \E q \in Questions, d \in BOOLEAN : AskStart(q, d)
  \/ AskSearchVectors
  \/ AskSearchTables
  \/ AskLLM
  \/ AskReturn

SpecAsk == AskInit /\ [][AskNext]_vars

\* ------------------------------------------------------ /api/query actions
\* What a get of key k can find at instant t without the entry having expired.
LiveEntry(d, k, t) ==
  IF \E i \in 1..Len(d) : d[i].key = k /\ (d[i].expires_at = None \/ d[i].expires_at[1] >= t)
    THEN Some((CHOOSE e \in {d[i] : i \in 1..Len(d)} : e.key = k).value)
    ELSE None

\* hybrid_query up to the cache lookup: a hit answers the request, otherwise
\* the engine is asked.
HQ_Lookup(q, f, d) ==
  LET k == QueryKey(q, f)
      res == InMemoryCache_get_result(cache, k, now)
  IN /\ reqPc = "idle" /\ askPc = "idle"
     /\ req' = [question |-> q, file_filter |-> f, debug |-> d]
     /\ cache' = InMemoryCache_get_dict(cache, k, now)
     /\ cached_result' = res
     /\ live' = IF <<q, f>> \in fresh THEN LiveEntry(cache, k, now) ELSE None
     /\ fresh' = {p \in fresh : QueryKey(p[1], p[2]) \in DictKeys(cache')}
     /\ wrote' = FALSE
     /\ calls' = <<>>
     /\ vector_context' = <<>> /\ source_file' = None /\ table_context' = <<>>
     /\ answer' = None /\ llm' = "none" /\ prompt' = None
     /\ IF UseCached(res, d)
          THEN /\ response' = res
               /\ reqPc' = "done"
               /\ UNCHANGED <<askPc, askArgs>>
          ELSE /\ response' = None
               /\ reqPc' = "ask"
               /\ askPc' = "search_vectors"
               /\ askArgs' = [question |-> q, debug |-> d]
     /\ UNCHANGED <<extVars, backendVars, now, max_entries, lastOp, watched, lastSet, storeVars, ttl_seconds>>

\* hybrid_query after ask: an exception of ask, or of the two searches made
\* for the sources, becomes HTTP 500; otherwise the response is built, stored
\* in the cache and returned.
HQ_Finish ==
  /\ reqPc = "ask" /\ askPc \in {"returned", "raised"}
  /\ askPc' = "idle"
  /\ \/ /\ askPc = "raised"
        /\ reqPc' = "error"
        /\ UNCHANGED <<cache, response, wrote, fresh, calls>>
     \/ /\ askPc = "returned"
        /\ \E failed \in {"vector", "table"} :
             /\ calls' = IF failed = "vector" THEN Append(calls, "vector")
                         ELSE calls \o <<"vector", "table">>
             /\ reqPc' = "error"
             /\ UNCHANGED <<cache, response, wrote, fresh>>
     \/ /\ askPc = "returned"
        /\ \E vr \in VectorSearchResults(qdrant) :
             LET tr == search_tables(mongo, req.file_filter)
                 resp == QueryResponse(answer[1], Sources(vr, tr), req.debug)
                 k == QueryKey(req.question, req.file_filter)
             IN /\ calls' = calls \o <<"vector", "table">>
                /\ response' = Some(resp)
                /\ cache' = InMemoryCache_set_dict(cache, max_entries, k, resp, ttl_seconds, now)
                /\ wrote' = TRUE
                /\ fresh' = {p \in fresh \cup {<<req.question, req.file_filter>>} :
                               QueryKey(p[1], p[2]) \in DictKeys(cache')}
                /\ reqPc' = "done"
  /\ UNCHANGED <<extVars, prompt, backendVars, now, max_entries, lastOp, watched, lastSet, storeVars, ttl_seconds, req,
                 cached_result, live, askArgs, vector_context, source_file, table_context,
                 answer, llm>>

\* The response (or the error) has been sent.
HQ_Return ==
  /\ reqPc \in {"done", "error"}
  /\ reqPc' = "idle"
  /\ req' = NoRequest
  /\ cached_result' = None
  /\ response' = None
  /\ wrote' = FALSE
  /\ live' = None
  /\ AskReset
  /\ UNCHANGED <<extVars, backendVars, now, cacheVars, storeVars, ttl_seconds, fresh>>

\* /api/cache/clear: QueryCache.clear_query_cache
ClearCache ==
  /\ reqPc = "idle"
  /\ cache' = <<>>
  /\ fresh' = {}
  /\ UNCHANGED <<extVars, prompt, backendVars, now, max_entries, lastOp, watched, lastSet, storeVars, askVars,
                 ttl_seconds, reqPc, req, cached_result, response, wrote, live>>

\* init_cache(ttl_seconds) at startup; both stores hold ingested documents.
ApiInit ==
  /\ now = 1
  /\ cache = <<>> /\ max_entries = MaxEntries
  /\ lastOp = NoOp /\ watched = "k1" /\ lastSet = None
  /\ mongo = TableRecords("X.pdf") \o TableRecords("Y.pdf")
  /\ qdrant = ChunkPayloads("Y.pdf")
  /\ AskIdle
  /\ ttl_seconds \in TTLs
  /\ reqPc = "idle"
  /\ req = NoRequest
  /\ cached_result = None
  /\ response = None
  /\ wrote = FALSE
  /\ fresh = {}
  /\ live = None
  /\ BackendIdle /\ ExtIdle

ApiNext ==
  \/ Tick
  \/ \E q \in Questions, f \in Filters, d \in BOOLEAN : HQ_Lookup(q, f, d)
  \/ AskSearchVectors
  \/ AskSearchTables
  \/ AskLLM
  \/ HQ_Finish
  \/ HQ_Return
  \/ ClearCache

SpecApi == ApiInit /\ [][ApiNext]_vars

\* ---------------------------------------------- the two backends together
\* QueryCache.__init__(redis_url): RedisCache.__init__ pings the server.
Startup(url_given, redis_importable, ping_ok) ==
  /\ ~started
  /\ started' = TRUE
  /\ backend' = QueryCacheBackend(url_given, redis_importable, ping_ok)
  /\ available' = (url_given /\ redis_importable /\ ping_ok)
  /\ reachable' = (url_given /\ redis_importable /\ ping_ok)
  /\ UNCHANGED <<extVars, prompt, now, cacheVars, storeVars, askVars, reqVars, redisDb, redisOp>>

Downs == IF available THEN BOOLEAN ELSE {FALSE}
MemOp(op, k, result) ==
  [op |-> op, key |-> k, had |-> DictHas(cache, k), full |-> (Len(cache) >= max_entries),
   result |-> result, imm |-> FALSE, raised |-> FALSE]
RedisOp(op, r) == [op |-> op, result |-> r.result, raised |-> r.raised, failed |-> r.failed]

\* The same get on an InMemoryCache and on the RedisCache.
BothGet(k, down) ==
  /\ started
  /\ cache' = InMemoryCache_get_dict(cache, k, now)
  /\ lastOp' = MemOp("get", k, InMemoryCache_get_result(cache, k, now))
  /\ redisOp' = RedisOp("get", RedisCache_get(available, redisDb, k, now, down))
  /\ reachable' = (reachable /\ ~down)
  /\ UNCHANGED <<extVars, prompt, now, max_entries, watched, lastSet, storeVars, askVars, reqVars,
                 started, backend, available, redisDb>>

\* The same set on both.
BothSet(k, v, ttl, down) ==
  /\ started
  /\ cache' = InMemoryCache_set_dict(cache, max_entries, k, v, ttl, now)
  /\ lastOp' = MemOp("set", k, Some("True"))
  /\ redisOp' = RedisOp("set", RedisCache_set(available, redisDb, k, v, ttl, now, down))
  /\ redisDb' = RedisCache_set_db(available, redisDb, k, v, ttl, now, down)
  /\ reachable' = (reachable /\ ~down)
  /\ UNCHANGED <<extVars, prompt, now, max_entries, watched, lastSet, storeVars, askVars, reqVars,
                 started, backend, available>>

\* The same delete on both.
BothDelete(k, down) ==
  /\ started
  /\ cache' = InMemoryCache_delete_dict(cache, k)
  /\ lastOp' = MemOp("delete", k,
                     Some(IF InMemoryCache_delete_result(cache, k) THEN "True" ELSE "False"))
  /\ redisOp' = RedisOp("delete", RedisCache_delete(available, redisDb, k, now, down))
  /\ redisDb' = RedisCache_delete_db(available, redisDb, k, down)
  /\ reachable' = (reachable /\ ~down)
  /\ UNCHANGED <<extVars, prompt, now, max_entries, watched, lastSet, storeVars, askVars, reqVars,
                 started, backend, available>>

\* The same clear on both.
BothClear(down) ==
  /\ started
  /\ cache' = <<>>
  /\ lastOp' = MemOp("clear", "", Some("True"))
  /\ redisOp' = RedisOp("clear", RedisCache_clear(available, down))
  /\ redisDb' = RedisCache_clear_db(available, redisDb, down)
  /\ reachable' = (reachable /\ ~down)
  /\ UNCHANGED <<extVars, prompt, now, max_entries, watched, lastSet, storeVars, askVars, reqVars,
                 started, backend, available>>

\* Time passes for both backends.
BothTick ==
  /\ now < MaxTime
  /\ now' = now + 1
  /\ UNCHANGED <<extVars, prompt, cacheVars, storeVars, askVars, reqVars, backendVars>>

BackendInit ==
  /\ StoreIdle /\ AskIdle /\ ReqIdle /\ BackendIdle /\ ExtIdle
  /\ now = 1
  /\ cache = <<>>
  /\ max_entries = MaxEntries
  /\ lastOp = NoOp
  /\ watched = "k1"
  /\ lastSet = None

BackendNext ==
  \/ \E u, i, p \in BOOLEAN : Startup(u, i, p)
  \/ BothTick
  \/ \E k \in BackendKeys, down \in Downs : BothGet(k, down)
  \/ \E k \in BackendKeys, v \in PyValues, ttl \in TTLs, down \in Downs : BothSet(k, v, ttl, down)
  \/ \E k \in BackendKeys, down \in Downs : BothDelete(k, down)
  \/ \E down \in Downs : BothClear(down)

SpecBackend == BackendInit /\ [][BackendNext]_vars

\* ------------------------------------------------------ DocumentProcessor
MaxElements == 2    \* most elements partition_pdf returns for a file

\* The classes of unstructured.documents.elements: Table, NarrativeText,
\* Title and ListItem are subclasses of Text; CheckBox is not.
TextSubclasses == {"Text", "NarrativeText", "Title", "ListItem", "Table"}
supported_text_types == {"NarrativeText", "Title", "Text", "ListItem"}
IsInstance(kind, classes) ==
  \/ kind \in classes
  \/ "Text" \in classes /\ kind \in TextSubclasses

\* The texts of the elements of the sample files.
DateTokens == {"2024-01-30", "2024-02-26", "2024-02-27"}
CurrencyTokens == {"$1", "$2", "$3"}
NumberTokens == DateTokens \cup CurrencyTokens \cup {"1", "2", "3", "4"}
TablePrefixes == {"Table data:", "table data:", "| "} \cup TableOpen
TextPlain == <<"Revenue", " ", "grew">>
TextPadded == <<" ", "Revenue", " ", "grew", "\n">>
TextBlank == <<" ">>
TextDates == <<"2024-01-30", " ", "2024-02-26", " ", "2024-02-27">>
TextMarked == <<"Table data:", " ", "Revenue">>
ElementTexts == {TextPlain, TextPadded, TextBlank, TextDates, TextMarked}
HtmlOf(text) == <<"<table>", "<tr>", "<td>">> \o text \o <<"</td>", "</tr>", "</table>">>
ElementPool ==
  {[kind |-> "Table", text |-> t, text_as_html |-> HtmlOf(t)] : t \in ElementTexts}
  \cup {[kind |-> "Table", text |-> t] : t \in ElementTexts}
  \cup {[kind |-> "NarrativeText", text |-> t] : t \in ElementTexts}
  \cup {[kind |-> "CheckBox", text |-> TextBlank]}
ElementSeqs == UNION {[1..n -> ElementPool] : n \in 0..MaxElements}

Count(s, set) == Cardinality({i \in 1..Len(s) : s[i] \in set})
\* str.split()
Words(s) == SelectSeq(s, LAMBDA tok : tok \notin WhiteSpace)

\* DocumentProcessor._is_table_like_text
Transitions(words) ==
  Cardinality({i \in 1..(Len(words) - 1) :
                 (words[i] \in NumberTokens) # (words[i + 1] \in NumberTokens)})
is_table_like_text(text_content) ==
  \/ text_content # <<>> /\ Head(text_content) \in TablePrefixes
  \/ Count(text_content, DateTokens) >= 3
  \/ Count(text_content, {"\t"}) >= 3
  \/ Len(Words(text_content)) >= 8 /\ Transitions(Words(text_content)) >= 6
  \/ Count(text_content, CurrencyTokens) >= 3

\* DocumentProcessor._extract_table
extract_table(element, index, extract_as) ==
  IF extract_as = "html" /\ "text_as_html" \in DOMAIN element
    THEN [table_id |-> "table_" \o ToString(index), content |-> element.text_as_html,
          content_type |-> "html"]
    ELSE [table_id |-> "table_" \o ToString(index), content |-> element.text,
          content_type |-> "text"]

\* process_pdf, first pass: one record for each Table element, the index
\* being the position among all elements, counted from 0.
Indices(els, keep(_)) ==
  LET F[i \in 0..Len(els)] ==
        IF i = 0 THEN <<>> ELSE F[i - 1] \o (IF keep(i) THEN <<i>> ELSE <<>>)
  IN F[Len(els)]
TableIndices(els) == Indices(els, LAMBDA i : IsInstance(els[i].kind, {"Table"}))
FirstPass(els) ==
  LET idx == TableIndices(els)
  IN [j \in 1..Len(idx) |-> extract_table(els[idx[j]], idx[j] - 1, "html")]

\* process_pdf, second pass: the elements whose stripped text is kept.
TextIndices(els) ==
  Indices(els, LAMBDA i : /\ IsInstance(els[i].kind, supported_text_types)
                           /\ Strip(els[i].text) # <<>>
                           /\ ~is_table_like_text(Strip(els[i].text)))
SecondPass(els) ==
  LET idx == TextIndices(els)
  IN [j \in 1..Len(idx) |-> Strip(els[idx[j]].text)]

\* process_pdf: self.table_locations = [] before the first pass, which then
\* appends the page and the index of each Table element.
ResetLocations_keep(locations) == locations
ResetLocations(locations) == <<>>
TableLocations(els) ==
  LET idx == TableIndices(els)
  IN [j \in 1..Len(idx) |-> [page |-> PyGet(els[idx[j]], "page_number"), index |-> idx[j] - 1]]

\* Path.suffix.lower()
Suffixes == {".pdf", ".PDF", ".txt"}
Lower(suffix) == IF suffix = ".PDF" THEN ".pdf" ELSE suffix
Strategies == {"auto", "fast", "hi_res"}
PartitionOutcomes == {"ok", "unavailable", "error"}

Raised(exc) == Some([raised |-> Some(exc), tables_to_store |-> <<>>, text_to_embed |-> <<>>])

\* process_pdf: the two checks of the path, and the exception they raise.
ValidatePath_lenient(exists, suffix) == None
ValidatePath(exists, suffix) ==
  IF ~exists THEN Some("FileNotFoundError")
  ELSE IF Lower(suffix) # ".pdf" THEN Some("ValueError")
  ELSE None
ProcessValidate ==
  /\ pdfPc = "validate"
  /\ LET exc == ValidatePath(pdf_args[1].exists, pdf_args[1].suffix)
     IN IF exc # None
          THEN pdfPc' = "done" /\ process_result' = Raised(exc[1])
          ELSE pdfPc' = "partition" /\ UNCHANGED process_result
  /\ UNCHANGED <<pdf_args, partition_calls, elements, table_locations, pipeVars, fnVars>>
  /\ UNCHANGED <<now, cacheVars, storeVars, askVars, prompt, reqVars, backendVars>>

\* process_pdf: the call of partition_pdf with the strategy asked for.
\* ImportError and ModuleNotFoundError are the outcome "unavailable".
RetryOn_always(strategy) == TRUE
RetryOn(strategy) == strategy = "hi_res"
PartitionFirst(outcome) ==
  /\ pdfPc = "partition"
  /\ partition_calls' = Append(partition_calls,
                               [strategy |-> pdf_args[1].strategy, outcome |-> outcome])
  /\ IF outcome = "ok"
       THEN /\ elements' = pdf_args[1].file_elements
            /\ pdfPc' = "passes"
            /\ UNCHANGED process_result
     ELSE IF outcome = "unavailable" /\ RetryOn(pdf_args[1].strategy)
       THEN pdfPc' = "retry" /\ UNCHANGED <<elements, process_result>>
     ELSE /\ pdfPc' = "done"
          /\ process_result' = Raised(IF outcome = "unavailable" THEN "ImportError"
                                      ELSE "PartitionError")
          /\ UNCHANGED elements
  /\ UNCHANGED <<pdf_args, table_locations, pipeVars, fnVars>>
  /\ UNCHANGED <<now, cacheVars, storeVars, askVars, prompt, reqVars, backendVars>>

\* process_pdf: the retry with strategy fast, outside any try.
PartitionRetry(outcome) ==
  /\ pdfPc = "retry"
  /\ partition_calls' = Append(partition_calls, [strategy |-> "fast", outcome |-> outcome])
  /\ IF outcome = "ok"
       THEN /\ elements' = pdf_args[1].file_elements
            /\ pdfPc' = "passes"
            /\ UNCHANGED process_result
       ELSE /\ pdfPc' = "done"
            /\ process_result' = Raised(IF outcome = "unavailable" THEN "ImportError"
                                        ELSE "PartitionError")
            /\ UNCHANGED elements
  /\ UNCHANGED <<pdf_args, table_locations, pipeVars, fnVars>>
  /\ UNCHANGED <<now, cacheVars, storeVars, askVars, prompt, reqVars, backendVars>>

\* process_pdf: the two passes over the elements and the return.
ProcessPasses ==
  /\ pdfPc = "passes"
  /\ pdfPc' = "done"
  /\ process_result' = Some([raised |-> None, tables_to_store |-> FirstPass(elements),
                             text_to_embed |-> SecondPass(elements)])
  /\ table_locations' = ResetLocations(table_locations) \o TableLocations(elements)
  /\ UNCHANGED <<pdf_args, partition_calls, elements, pipeVars, fnVars>>
  /\ UNCHANGED <<now, cacheVars, storeVars, askVars, prompt, reqVars, backendVars>>

\* process_pdf is called once, with any path, strategy and file content.
IngestInit ==
  /\ now = 1
  /\ cache = <<>> /\ max_entries = MaxEntries
  /\ lastOp = NoOp /\ watched = "k1" /\ lastSet = None
  /\ StoreIdle /\ AskIdle /\ ReqIdle /\ BackendIdle /\ PipeIdle /\ FnIdle
  /\ pdfPc = "validate"
  /\ \E ex \in BOOLEAN, sfx \in Suffixes, st \in Strategies, els \in ElementSeqs :
       pdf_args = Some([exists |-> ex, suffix |-> sfx, strategy |-> st, file_elements |-> els])
  /\ partition_calls = <<>>
  /\ elements = <<>>
  /\ process_result = None
  /\ table_locations = <<>>

IngestNext ==
  \/ ProcessValidate
  \/ \E outcome \in PartitionOutcomes : PartitionFirst(outcome)
  \/ \E outcome \in PartitionOutcomes : PartitionRetry(outcome)
  \/ ProcessPasses

SpecIngest == IngestInit /\ [][IngestNext]_vars

\* ------------------------------------------- html_table_to_markdown alone
MaxRows == 3        \* most rows of a rendered table

\* The cells of the sample tables: how the cell is written in HTML and the
\* text it shows.
CellPool ==
  {[html |-> <<"<th>", "Phase", "</th>">>, text |-> <<"Phase">>],
   [html |-> <<"<td>", " ", "<b>", "Design", "</b>", " ", "</td>">>, text |-> <<"Design">>],
   [html |-> <<"<td>", "</td>">>, text |-> <<>>]}
RowPool == [1..1 -> CellPool] \cup [1..2 -> CellPool]
TablePool == UNION {[1..n -> RowPool] : n \in 0..MaxRows}

\* The table as the extractor writes it: compact, or one row per line.
RenderRow(row, pretty) ==
  (IF pretty THEN <<"\n", " ", "<tr class=r>">> ELSE <<"<tr>">>)
  \o Join([c \in 1..Len(row) |-> row[c].html], <<>>) \o <<"</tr>">>
RenderTable(rows, pretty) ==
  (IF pretty THEN <<"\n">> ELSE <<>>) \o <<"<table>">>
  \o Join([i \in 1..Len(rows) |-> RenderRow(rows[i], pretty)], <<>>)
  \o (IF pretty THEN <<"\n", "</table>", "\n">> ELSE <<"</table>">>)
PlainTexts == {<<"Revenue", " ", " ", "grew">>, <<"Revenue", " ", "grew">>}

\* html_table_to_markdown(html_content) is called and returns.
CallMarkdown ==
  /\ args # None /\ ret = None
  /\ "html_content" \in DOMAIN args[1]
  /\ ret' = Some(html_table_to_markdown(args[1].html_content))
  /\ UNCHANGED <<args, ingestVars, pipeVars>>
  /\ UNCHANGED <<now, cacheVars, storeVars, askVars, prompt, reqVars, backendVars>>

MarkdownInit ==
  /\ now = 1
  /\ cache = <<>> /\ max_entries = MaxEntries
  /\ lastOp = NoOp /\ watched = "k1" /\ lastSet = None
  /\ StoreIdle /\ AskIdle /\ ReqIdle /\ BackendIdle /\ IngestIdle /\ PipeIdle
  /\ \/ \E rows \in TablePool, pretty \in BOOLEAN :
          args = Some([rows |-> rows, html_content |-> RenderTable(rows, pretty)])
     \/ \E t \in PlainTexts : args = Some([rows |-> <<>>, html_content |-> t])
  /\ ret = None

MarkdownNext == CallMarkdown

SpecMarkdown == MarkdownInit /\ [][MarkdownNext]_vars

\* ------------------------------------------------ ask over stored tables
\* The stores as run_pipeline leaves them for one file: at most two table
\* records, the first an HTML table, and the chunks of the file.
StoredHtml ==
  {RenderTable(rows, pretty) : rows \in UNION {[1..n -> [1..1 -> CellPool]] : n \in 0..MaxRows},
                               pretty \in BOOLEAN}
HtmlRecord(html) ==
  [table_id |-> "table_0", content |-> html, content_type |-> "html",
   source_filename |-> "X.pdf"]
TextRecord ==
  [table_id |-> "table_1", content |-> <<"Phase", " ", "Design">>, content_type |-> "text",
   source_filename |-> "X.pdf"]

PromptInit ==
  /\ now = 1
  /\ cache = <<>> /\ max_entries = MaxEntries
  /\ lastOp = NoOp /\ watched = "k1" /\ lastSet = None
  /\ AskIdle /\ ReqIdle /\ BackendIdle /\ ExtIdle
  /\ \/ mongo = <<>>
     \/ \E html \in StoredHtml : mongo \in {<<HtmlRecord(html)>>, <<HtmlRecord(html), TextRecord>>}
  /\ qdrant \in {<<>>, ChunkPayloads("X.pdf")}

PromptNext ==
  \/ \E q \in Questions, d \in BOOLEAN : AskStart(q, d)
  \/ AskSearchVectors
  \/ AskSearchTables
  \/ AskLLM
  \/ AskReturn

SpecPrompt == PromptInit /\ [][PromptNext]_vars

\* ------------------------------------------------------------ run_pipeline
\* The elements of the files the pipeline is run on.
PipelinePool ==
  {[kind |-> "Table", text |-> TextPlain, text_as_html |-> HtmlOf(TextPlain)],
   [kind |-> "Table", text |-> TextBlank, text_as_html |-> HtmlOf(TextBlank)],
   [kind |-> "NarrativeText", text |-> TextPlain]}
PipelineSeqs == UNION {[1..n -> PipelinePool] : n \in 0..MaxElements}
\* How the handling of one file goes: every call returns, or process_pdf,
\* insert_tables or the embedding and upsert of the chunks raises.
PipelineOutcomes == {"ok", "process_raises", "tables_raise", "vectors_raise"}

\* len(text)
CharLen(s) ==
  LET F[i \in 0..Len(s)] == IF i = 0 THEN 0 ELSE F[i - 1] + Len(s[i])
  IN F[Len(s)]

\* extract_table_text_for_vectorization
TableText(content) == Strip(CollapseWs(SubTags(content, <<" ">>)))
TableSummary(content) == <<"Table data:", " ">> \o TableText(content)
extract_table_text_for_vectorization(tables) ==
  LET F[i \in 0..Len(tables)] ==
        IF i = 0 THEN <<>>
        ELSE F[i - 1] \o
             (IF tables[i].content # <<>> /\ CharLen(TableText(tables[i].content)) > 10
                THEN <<TableSummary(tables[i].content)>> ELSE <<>>)
  IN F[Len(tables)]

\* MongoConnector.insert_tables
insert_tables(tables, source_filename) ==
  [i \in 1..Len(tables) |->
     [table_id |-> tables[i].table_id, content |-> tables[i].content,
      content_type |-> tables[i].content_type, source_filename |-> source_filename]]

\* EmbeddingModel.prepare_qdrant_points: the payloads.
prepare_qdrant_points(texts, source_filename) ==
  [i \in 1..Len(texts) |->
     [text |-> texts[i], source_filename |-> source_filename, chunk_index |-> i - 1]]

\* main, one turn of the loop over pdf_files: the file is processed, its
\* tables are stored, their text is added to the chunks, and the chunks are
\* embedded and stored; an exception ends the turn where it is raised.
PipelineFile(els, outcome) ==
  LET pdf_file == Head(pdf_files)
      tables == FirstPass(els)
      texts == SecondPass(els)
      all_texts == IF tables # <<>> THEN texts \o extract_table_text_for_vectorization(tables)
                   ELSE texts
      skipped == outcome = "process_raises" \/ (tables = <<>> /\ texts = <<>>)
      tables_stored == ~skipped /\ tables # <<>> /\ outcome # "tables_raise"
      vectors_stored == /\ ~skipped /\ all_texts # <<>>
                        /\ outcome \notin {"tables_raise", "vectors_raise"}
  IN /\ pdf_files # <<>>
     /\ pdf_files' = Tail(pdf_files)
     /\ mongo' = IF tables_stored THEN mongo \o insert_tables(tables, pdf_file) ELSE mongo
     /\ qdrant' = IF vectors_stored THEN qdrant \o prepare_qdrant_points(all_texts, pdf_file)
                  ELSE qdrant
     /\ handled' = Append(handled, [file |-> pdf_file, outcome |-> outcome])
     /\ UNCHANGED <<ingestVars, fnVars>>
     /\ UNCHANGED <<now, cacheVars, askVars, prompt, reqVars, backendVars>>

\* main up to the loop: both stores are empty and the data directory lists
\* two files.
PipelineInit ==
  /\ now = 1
  /\ cache = <<>> /\ max_entries = MaxEntries
  /\ lastOp = NoOp /\ watched = "k1" /\ lastSet = None
  /\ StoreIdle /\ AskIdle /\ ReqIdle /\ BackendIdle /\ IngestIdle /\ FnIdle
  /\ pdf_files = <<"X.pdf", "Y.pdf">>
  /\ handled = <<>>

PipelineNext == \E els \in PipelineSeqs, outcome \in PipelineOutcomes : PipelineFile(els, outcome)

SpecPipeline == PipelineInit /\ [][PipelineNext]_vars

\* ---------------------------------------------------------- QueryOptimizer
MaxResults == 3     \* most results handed to the optimizer
MaxScore == 2       \* largest score of a result, in tenths

\* Search results: dicts with a text, with or without a score.
TextValues == {<<"a">>, <<" ", "a">>, <<"b">>, <<>>, <<" ">>}
DedupPool ==
  {[text |-> t, score |-> sc] : t \in TextValues, sc \in {1, 2}} \cup {[score |-> 1]}
ScoredPool ==
  {[text |-> t, score |-> sc] : t \in {<<"a">>, <<"b">>}, sc \in 0..MaxScore}
  \cup {[text |-> <<"a">>]}
SeqsOver(pool) == UNION {[1..n -> pool] : n \in 0..MaxResults}

\* r.get("score", 0) >= score_threshold
Score(r) == PyGetOr(r, "score", 0)
Passes_all(r, score_threshold) == TRUE
Passes(r, score_threshold) == Score(r) >= score_threshold

\* sorted(filtered, key=score, reverse=True): stable, equal scores keep their
\* order.
RECURSIVE InsertDesc(_, _)
InsertDesc(sorted, r) ==
  IF sorted = <<>> THEN <<r>>
  ELSE IF Score(Head(sorted)) >= Score(r) THEN <<Head(sorted)>> \o InsertDesc(Tail(sorted), r)
  ELSE <<r>> \o sorted
SortDesc(rs) ==
  LET F[i \in 0..Len(rs)] == IF i = 0 THEN <<>> ELSE InsertDesc(F[i - 1], rs[i])
  IN F[Len(rs)]

\* QueryOptimizer.optimize_vector_search_results
optimize_vector_search_results(results, max_results, score_threshold) ==
  Take(SortDesc(SelectSeq(results, LAMBDA r : Passes(r, score_threshold))), max_results)

\* QueryOptimizer.deduplicate_results: str(result.get(key, "")).strip()
DedupValue(result, key) == Strip(PyGetOr(result, key, <<>>))
deduplicate_results(results, key) ==
  LET F[i \in 0..Len(results)] ==
        IF i = 0 THEN [seen |-> {}, unique |-> <<>>]
        ELSE LET value == DedupValue(results[i], key)
             IN IF value # <<>> /\ value \notin F[i - 1].seen
                  THEN [seen |-> F[i - 1].seen \cup {value},
                        unique |-> Append(F[i - 1].unique, results[i])]
                  ELSE F[i - 1]
  IN F[Len(results)].unique

\* optimize_vector_search_results(...) is called and returns.
CallOptimize ==
  /\ args # None /\ ret = None
  /\ "max_results" \in DOMAIN args[1]
  /\ ret' = Some(optimize_vector_search_results(args[1].results, args[1].max_results,
                                                args[1].score_threshold))
  /\ UNCHANGED <<args, ingestVars, pipeVars>>
  /\ UNCHANGED <<now, cacheVars, storeVars, askVars, prompt, reqVars, backendVars>>

\* deduplicate_results(results, key) is called and returns.
CallDeduplicate ==
  /\ args # None /\ ret = None
  /\ "key" \in DOMAIN args[1]
  /\ ret' = Some(deduplicate_results(args[1].results, args[1].key))
  /\ UNCHANGED <<args, ingestVars, pipeVars>>
  /\ UNCHANGED <<now, cacheVars, storeVars, askVars, prompt, reqVars, backendVars>>

OptimizeInit ==
  /\ now = 1
  /\ cache = <<>> /\ max_entries = MaxEntries
  /\ lastOp = NoOp /\ watched = "k1" /\ lastSet = None
  /\ StoreIdle /\ AskIdle /\ ReqIdle /\ BackendIdle /\ IngestIdle /\ PipeIdle
  /\ \/ \E rs \in SeqsOver(ScoredPool), m \in 0..MaxResults, th \in 0..MaxScore :
          args = Some([results |-> rs, max_results |-> m, score_threshold |-> th])
     \/ \E rs \in SeqsOver(DedupPool) : args = Some([results |-> rs, key |-> "text"])
  /\ ret = None

OptimizeNext ==
  \/ CallOptimize
  \/ CallDeduplicate

SpecOptimize == OptimizeInit /\ [][OptimizeNext]_vars

\* --------------------------------------------------------------- C1
TablesSearched == askPc \in {"llm", "returned"}
TopHasFile == vector_context # <<>> /\ "source_filename" \in DOMAIN vector_context[1]

\* C1: whenever the vector search returned at least one chunk and the
\* top-ranked chunk has source_filename X, every table record placed in the
\* context has source_filename X, whatever the table store holds.
C1_ScopedToTopFile ==
  (TablesSearched /\ TopHasFile) =>
    \A i \in 1..Len(table_context) :
      table_context[i].source_filename = vector_context[1].source_filename

\* The top chunk names a file, tables of it were returned, and the store
\* holds a table of another file.
C1_Witness ==
  /\ TablesSearched /\ TopHasFile
  /\ table_context # <<>>
  /\ \E i \in 1..Len(mongo) : mongo[i].source_filename # vector_context[1].source_filename

\* --------------------------------------------------------------- C2
\* The records a table search scoped by the rank-1 result alone returns.
Rank1Scoped(tables, vc) ==
  LET unscoped == vc = <<>> \/ "source_filename" \notin DOMAIN vc[1] \/ vc[1].source_filename = ""
      wanted == {i \in 1..Len(tables) : unscoped \/ tables[i].source_filename = vc[1].source_filename}
      kept == {i \in wanted : Cardinality({j \in wanted : j < i}) < 5}
  IN [ix \in {[i |-> i, n |-> Cardinality({j \in kept : j <= i})] : i \in kept} |-> tables[ix.i]]

TableSearchStep == askPc = "search_tables" /\ askPc' = "llm"

\* C2: the table-search filter is the rank-1 vector result's source_filename
\* when present and non-empty, otherwise the search is unfiltered; at most 5
\* records are returned.
C2_Rank1Decides ==
  [][TableSearchStep =>
       /\ Len(table_context') <= 5
       /\ \A ix \in DOMAIN Rank1Scoped(mongo, vector_context) :
            /\ ix.n \in 1..Len(table_context')
            /\ table_context'[ix.n] = Rank1Scoped(mongo, vector_context)[ix]
       /\ Len(table_context') = Cardinality(DOMAIN Rank1Scoped(mongo, vector_context))]_vars

\* The rank-1 result has no filename although a lower-ranked one has: the
\* search was unfiltered, returned records of two files, and was cut to 5.
C2_Witness ==
  /\ TablesSearched
  /\ vector_context # <<>> /\ ~TopHasFile
  /\ \E i \in 2..Len(vector_context) : "source_filename" \in DOMAIN vector_context[i]
  /\ Len(table_context) = 5 /\ Len(mongo) > 5
  /\ \E i, j \in 1..Len(table_context) :
       table_context[i].source_filename # table_context[j].source_filename

\* --------------------------------------------------------------- C3
\* C3: if the LLM call fails, ask raises nothing and returns the fixed
\* degraded answer; once both retrievals have succeeded the caller always
\* receives a textual answer.
C3_DegradedAnswer ==
  /\ llm = "fail" =>
       askPc = "returned" /\ answer = Some("There was an error generating the answer.")
  /\ (Len(calls) >= 3 /\ calls[3] = "llm") =>
       askPc = "returned" /\ answer # None
  /\ (askPc = "raised") => llm = "none"

\* The LLM call of an ask failed after both retrievals had returned.
C3_Witness ==
  /\ askPc = "returned" /\ llm = "fail"
  /\ SubSeq(calls, 1, 3) = <<"vector", "table", "llm">>
  /\ answer = Some(ErrorAnswer)

\* --------------------------------------------------------------- C4
\* The latest set on the key of the get that returned last.
GetSet == lastSet[1]
AfterGet == lastOp.op = "get" /\ lastOp.key = watched /\ lastSet # None
ImmediateGet == AfterGet /\ lastOp.imm /\ GetSet.at = now

EvictsOldest ==
  (lastOp'.op = "set" /\ Len(cache) >= max_entries) =>
    \E i \in 1..Len(cache) :
      /\ \A j \in 1..Len(cache) : cache[i].created_at <= cache[j].created_at
      /\ cache[i].key = lastOp'.key \/ ~DictHas(cache', cache[i].key)
      /\ \A j \in 1..Len(cache) :
           j # i => \/ cache[j].key = lastOp'.key
                    \/ \E n \in 1..Len(cache') : cache'[n] = cache[j]

\* C5: after any sequence of get/set/delete/clear calls the cache holds at
\* most max_entries entries, and a set arriving at a full cache first removes
\* the entry with the oldest created_at.
C5_Bounded == [](Len(cache) <= max_entries) /\ [][EvictsOldest]_vars

\* A set of a new key arrived at a full cache and left it full.
C5_Witness ==
  /\ lastOp.op = "set" /\ ~lastOp.had
  /\ lastOp.full /\ Len(cache) = max_entries

\* --------------------------------------------------------------- C6
\* C6: when the startup connectivity check of the durable backend fails,
\* QueryCache serves from the in-process backend; a later backend error during
\* get/set/delete/clear is returned as a miss (None) or a no-op (False) and
\* never raised to the caller.
C6_CacheNeverFails ==
  /\ (started /\ ~available) => backend = "memory"
  /\ ~redisOp.raised
  /\ redisOp.failed => redisOp.result \in {None, Some("False")}
  /\ (redisOp.failed /\ redisOp.op = "get") => redisOp.result = None

\* The server was reachable at startup, and a later call on it failed and
\* came back as a miss or a no-op.
C6_Witness ==
  /\ backend = "redis" /\ available
  /\ redisOp.failed /\ ~redisOp.raised
  /\ redisOp.result \in {None, Some("False")}

\* -------------------------------------------------------------- C10
\* C10 as stated: with the durable backend reachable and fewer keys than the
\* in-memory capacity, InMemoryCache and RedisCache return the same result for
\* every call, for every ttl value passed to set.
C10_AsStated ==
  (reachable /\ redisOp.op # "none") => lastOp.result = redisOp.result

\* --------------------------------------------------------------- C7
\* C7: a non-debug request whose (question, file_filter) equals that of an
\* earlier completed request, arriving before the entry's TTL expires and
\* with no clear or eviction in between, is answered with the stored response
\* and triggers no vector search, no table search and no LLM call.
C7_ServedFromCache ==
  (reqPc \in {"ask", "done", "error"} /\ ~req.debug /\ live # None) =>
    /\ reqPc = "done"
    /\ response = live
    /\ calls = <<>>

\* A non-debug request was answered from the entry an earlier request with
\* the same question and filter had stored.
C7_Witness ==
  /\ reqPc = "done" /\ ~req.debug /\ live # None
  /\ response = live /\ calls = <<>> /\ ~wrote

\* --------------------------------------------------------------- C8
\* C8 as stated: hybrid_query writes a query-cache entry only when the lookup
\* for that key missed and the engine returned a generated answer.
C8_AsStated ==
  wrote => (cached_result = None /\ llm = "ok")

\* --------------------------------------------------------------- C9
\* C9: under every interleaving of the get and set calls of concurrent
\* queries, a get(k) returns empty or the whole value of the latest completed
\* set(k, ...), and no cache call raises.
C9_LastWriteWins ==
  /\ (lastOp.op = "get" /\ lastOp.key = watched) =>
       \/ lastOp.result = None
       \/ lastSet # None /\ lastOp.result = Some(GetSet.value)
  /\ ~lastOp.raised
  /\ ~InMemoryCache_set_raises(cache, max_entries)

\* A get returned the value of a set that overwrote a different value of the
\* same key.
C9_Witness ==
  /\ AfterGet /\ GetSet.over
  /\ lastOp.result = Some(GetSet.value)
\* -------------------------------------------------------------- C11
\* C11 as stated: an element classified as Table never also contributes an
\* entry to text_to_embed; no entry of text_to_embed is the text of an element
\* that produced a table record (the text of another element of the file
\* being different).
Returned == pdfPc = "done" /\ process_result # None /\ process_result[1].raised = None
C11_AsStated ==
  Returned =>
    \A i \in 1..Len(elements) :
      (/\ elements[i].kind = "Table"
       /\ \A k \in 1..Len(elements) :
            elements[k].kind # "Table" => Strip(elements[k].text) # Strip(elements[i].text))
      => \A j \in 1..Len(process_result[1].text_to_embed) :
           process_result[1].text_to_embed[j] # Strip(elements[i].text)

\* -------------------------------------------------------------- C16
\* C16: process_pdf calls the partitioner at most twice; a first call with
\* strategy hi_res that signals unavailable is followed by exactly one retry
\* with strategy fast, whose error reaches the caller; with any other strategy
\* the unavailable signal reaches the caller and there is no retry.
C16_RetryOnce ==
  LET n == Len(partition_calls)
      res == process_result[1]
  IN /\ n <= 2
     /\ n = 2 => /\ partition_calls[1] = [strategy |-> "hi_res", outcome |-> "unavailable"]
                 /\ partition_calls[2].strategy = "fast"
     /\ (pdfPc = "done" /\ n >= 1 /\ partition_calls[1].outcome = "unavailable") =>
          IF partition_calls[1].strategy = "hi_res"
            THEN /\ n = 2
                 /\ partition_calls[2].outcome # "ok" => res.raised # None
                 /\ partition_calls[2].outcome = "ok" => res.raised = None
            ELSE n = 1 /\ res.raised = Some("ImportError")

\* The hi_res call was unavailable, the retry with fast failed too and its
\* error was raised.
C16_Witness ==
  /\ pdfPc = "done"
  /\ Len(partition_calls) = 2
  /\ partition_calls[1] = [strategy |-> "hi_res", outcome |-> "unavailable"]
  /\ partition_calls[2] = [strategy |-> "fast", outcome |-> "error"]
  /\ process_result[1].raised = Some("PartitionError")

\* -------------------------------------------------------------- C17
\* C17: process_pdf of a path that does not exist raises FileNotFoundError,
\* and of an existing path whose extension is not .pdf raises ValueError; in
\* both cases the partitioner is never called and no tables or texts are
\* produced.
C17_FailFast ==
  (pdfPc # "validate" /\ (~pdf_args[1].exists \/ pdf_args[1].suffix \notin {".pdf", ".PDF"})) =>
    /\ pdfPc = "done"
    /\ process_result[1].raised =
         Some(IF ~pdf_args[1].exists THEN "FileNotFoundError" ELSE "ValueError")
    /\ partition_calls = <<>>
    /\ elements = <<>>
    /\ process_result[1].tables_to_store = <<>>
    /\ process_result[1].text_to_embed = <<>>

\* An existing file named .txt, holding elements, was refused.
C17_Witness ==
  /\ pdfPc = "done"
  /\ pdf_args[1].exists /\ pdf_args[1].suffix = ".txt" /\ pdf_args[1].file_elements # <<>>
  /\ process_result[1].raised = Some("ValueError")
  /\ partition_calls = <<>>

\* -------------------------------------------------------------- C12
\* The lines of a text: its parts between line feeds.
RECURSIVE Lines(_)
Lines(s) ==
  LET i == IndexFrom(s, 1, {"\n"})
  IN IF i = 0 THEN <<s>> ELSE <<SubSeq(s, 1, i - 1)>> \o Lines(SubSeq(s, i + 1, Len(s)))
TrCount(html) == Count(html, TrOpen)
ExpectedRow(row) == <<"| ">> \o Join([c \in 1..Len(row) |-> row[c].text], <<" | ">>) \o <<" |">>
IsSeparator(line, n) ==
  /\ Count(line, {"---"}) = n
  /\ \A i \in 1..Len(line) : line[i] \in {"| ", "---", " | ", " |"}
\* For N >= 1 rows: N + 1 lines, the rows in source order with one separator
\* right after the first.
RowsKept ==
  LET rows == args[1].rows
      lines == Lines(ret[1])
      N == TrCount(args[1].html_content)
  IN /\ N = Len(rows)
     /\ Len(lines) = N + 1
     /\ lines[1] = ExpectedRow(rows[1])
     /\ IsSeparator(lines[2], Len(rows[1]))
     /\ \A i \in 2..N : lines[i + 1] = ExpectedRow(rows[i])

NormalisedCopy(out, in) ==
  /\ Words(out) = Words(in)
  /\ out # <<>> => out[1] \notin WhiteSpace /\ out[Len(out)] \notin WhiteSpace
  /\ \A i \in 1..Len(out) : out[i] \in WhiteSpace =>
       out[i] = " " /\ out[i + 1] \notin WhiteSpace
  /\ Count(out, WhiteSpace) =
       Cardinality({i \in 2..Len(Strip(in)) :
                      Strip(in)[i] \in WhiteSpace /\ Strip(in)[i - 1] \notin WhiteSpace})
Between(p, from, to) ==
  SubSeq(p, IndexFrom(p, 1, {from}) + 1, IndexFrom(p, 1, {to}) - 1)
TextSection(p) == Between(p, TextContextHeader, TableContextHeader)
TableSection(p) == Between(p, TableContextHeader, QuestionHeader)
\* The words of the cells of a text: what is neither markup, whitespace,
\* markdown punctuation nor a table heading.
TableHeadings(tc) ==
  {TableHeader(i, PyGetOr(tc[i], "table_id", i), PyGetOr(tc[i], "source_filename", "unknown")) :
     i \in 1..Len(tc)}
CellWords(s, tc) ==
  SelectSeq(s, LAMBDA tok : tok \notin Tags \cup WhiteSpace \cup TableHeadings(tc)
                                   \cup {"| ", " | ", " |", "---", "\n\n"})
StoredWords(tc) ==
  Join([i \in 1..Len(tc) |-> CellWords(PyGetOr(tc[i], "content", <<>>), tc)], <<>>)

\* C13: the cell text of every row of every retrieved table, the first data
\* row included, is in the table context of the prompt, in source row order.
C13_NoRowDropped ==
  (prompt # None /\ table_context # <<>>) =>
    CellWords(TableSection(prompt[1]), table_context) = StoredWords(table_context)

\* A table of three rows written over several lines, and a text table, were
\* retrieved and sent.
C13_Witness ==
  /\ prompt # None
  /\ Len(table_context) = 2
  /\ Count(table_context[1].content, TrOpen) = 3
  /\ Count(table_context[1].content, {"\n"}) > 0
  /\ Len(StoredWords(table_context)) >= 4

\* -------------------------------------------------------------- C14
\* C14: when the vector search and the table search both return nothing, ask
\* does not fail: the prompt holds the text sentinel and the table sentinel,
\* and the LLM is called once.
BothEmpty == vector_context = <<>> /\ table_context = <<>>
C14_EmptySentinels ==
  /\ (askPc \in {"llm", "returned"} /\ BothEmpty /\ prompt # None) =>
       /\ TextSection(prompt[1]) = <<"No relevant text chunks found.">>
       /\ TableSection(prompt[1]) = <<"No relevant tables found.">>
  /\ (askPc = "returned" /\ BothEmpty) =>
       /\ prompt # None
       /\ Count(calls, {"llm"}) = 1
       /\ answer # None
  /\ (askPc = "raised") => Count(calls, {"llm"}) = 0

\* Both stores were empty and ask returned.
C14_Witness ==
  /\ askPc = "returned" /\ BothEmpty
  /\ mongo = <<>> /\ qdrant = <<>>
  /\ calls = <<"vector", "table", "llm">>

\* -------------------------------------------------------------- C15
\* C15: every prompt holds, in this order and each once: role framing,
\* document-context rule, row-completeness rule, refusal rule, formatted text
\* context, formatted table context, the question.
Once(p, tok) == Count(p, {tok}) = 1
C15_SectionOrder ==
  prompt # None =>
    LET p == prompt[1]
        at(tok) == IndexFrom(p, 1, {tok})
    IN /\ \A tok \in {RoleFraming, RuleDocumentContext, RuleTableReading, RulePrecision,
                      TextContextHeader, TableContextHeader, QuestionHeader} : Once(p, tok)
       /\ at(RoleFraming) = 1
       /\ at(RoleFraming) < at(RuleDocumentContext)
       /\ at(RuleDocumentContext) < at(RuleTableReading)
       /\ at(RuleTableReading) < at(RulePrecision)
       /\ at(RulePrecision) < at(TextContextHeader)
       /\ at(TextContextHeader) < at(TableContextHeader)
       /\ at(TableContextHeader) < at(QuestionHeader)
       /\ TextSection(p) = format_text_context(vector_context)
       /\ TableSection(p) = format_table_context(table_context)
       /\ p[at(QuestionHeader) + 1] = askArgs.question
       /\ Once(p, askArgs.question)

\* A prompt with text chunks and tables in it.
C15_Witness ==
  /\ prompt # None
  /\ vector_context # <<>> /\ table_context # <<>>
  /\ askPc = "returned"

\* -------------------------------------------------------------- C18
\* C18 as stated: once run_pipeline has finished handling a file f, every
\* table of f in the table store whose tag-stripped, whitespace-collapsed
\* content is longer than 10 characters has a chunk 'Table data: <that text>'
\* with source_filename f in the vector index.
HandledFiles == {handled[i].file : i \in 1..Len(handled)}
C18_AsStated ==
  \A i \in 1..Len(mongo) :
    (/\ mongo[i].source_filename \in HandledFiles
     /\ CharLen(TableText(mongo[i].content)) > 10)
    => \E j \in 1..Len(qdrant) :
         /\ qdrant[j].source_filename = mongo[i].source_filename
         /\ qdrant[j].text = <<"Table data:", " ">> \o TableText(mongo[i].content)

\* -------------------------------------------------------------- C19
\* C19 as stated: deduplicate_results returns, in input order, exactly the
\* first result for each distinct trimmed value of the field, results whose
\* field is empty or missing included; only later results with a value
\* already seen are dropped.
FirstOfEachValue(results, key) ==
  LET F[i \in 0..Len(results)] ==
        IF i = 0 THEN <<>>
        ELSE IF \E j \in 1..(i - 1) :
                  Strip(PyGetOr(results[j], key, <<>>)) = Strip(PyGetOr(results[i], key, <<>>))
               THEN F[i - 1]
               ELSE Append(F[i - 1], results[i])
  IN F[Len(results)]
C19_AsStated ==
  (ret # None /\ "key" \in DOMAIN args[1]) =>
    ret[1] = FirstOfEachValue(args[1].results, args[1].key)

\* -------------------------------------------------------------- C20
\* How many results of rs have a score of at least s.
AtLeast(rs, s) == Cardinality({i \in 1..Len(rs) : Score(rs[i]) >= s})
Occurrences(rs, r) == Cardinality({i \in 1..Len(rs) : rs[i] = r})
\* C20: optimize_vector_search_results returns exactly the input results
\* whose score is >= score_threshold, by descending score, cut to the first
\* max_results; never more than max_results entries, none below the threshold.
C20_FilterSortCut ==
  (ret # None /\ "max_results" \in DOMAIN args[1]) =>
    LET out == ret[1]
        in == args[1].results
        m == args[1].max_results
        th == args[1].score_threshold
    IN /\ Len(out) <= m
       /\ \A j \in 1..Len(out) : Score(out[j]) >= th
       /\ \A j \in 1..(Len(out) - 1) : Score(out[j]) >= Score(out[j + 1])
       /\ \A j \in 1..Len(out) : Occurrences(out, out[j]) <= Occurrences(in, out[j])
       /\ \A s \in th..MaxScore : AtLeast(out, s) = Min(m, AtLeast(in, s))

\* A result below the threshold was dropped, the rest was reordered and cut.
C20_Witness ==
  /\ ret # None /\ "max_results" \in DOMAIN args[1]
  /\ args[1].score_threshold = 1
  /\ Len(args[1].results) = 3
  /\ Score(args[1].results[1]) = 0
  /\ Score(args[1].results[2]) < Score(args[1].results[3])
  /\ args[1].max_results = 1
  /\ ret[1] = <<args[1].results[3]>>

\* --------------------------------------------------------------- C21
\* C21 as stated: when an /api/query request carries file_filter = F, every
\* table used as context for the generated answer has source_filename F.
C21_AsStated ==
  (reqPc = "done" /\ wrote /\ req.file_filter # None) =>
    \A i \in 1..Len(table_context) :
      table_context[i].source_filename = req.file_filter[1]

\* --------------------------------------------------------------- C22
\* C22 as stated: the response to a request with debug = false carries no
\* debug_info, whatever requests came before.
C22_AsStated ==
  (reqPc = "done" /\ ~req.debug /\ response # None) =>
    response[1].debug_info = None

\* ------------------------------------------------- DELETE /documents/{f}
\* delete_many({"source_filename": filename}) on the table collection.
delete_many(records, filename) ==
  SelectSeq(records, LAMBDA r : r.source_filename # filename)

\* delete_document: the tables of the file are deleted from MongoDB; the
\* deletion from Qdrant is a comment (TODO), so the points stay. A store call
\* that raises becomes HTTP 500.
DeleteDocument(f) ==
  /\ ret = None
  /\ args' = Some([filename |-> f])
  /\ \/ /\ mongo' = delete_many(mongo, f)
        /\ ret' = Some([status |-> "success",
                        tables_deleted |-> Len(mongo) - Len(delete_many(mongo, f))])
     \/ /\ ret' = Some([status |-> "500", tables_deleted |-> 0])
        /\ UNCHANGED mongo
  /\ UNCHANGED <<now, cacheVars, qdrant, askVars, prompt, reqVars, backendVars,
                 ingestVars, pipeVars>>

\* The response of delete_document has been sent.
DeleteReturn ==
  /\ ret # None
  /\ args' = None /\ ret' = None
  /\ UNCHANGED <<now, cacheVars, storeVars, askVars, prompt, reqVars, backendVars,
                 ingestVars, pipeVars>>

DocsInit ==
  /\ now = 1
  /\ cache = <<>> /\ max_entries = MaxEntries
  /\ lastOp = NoOp /\ watched = "k1" /\ lastSet = None
  /\ mongo = <<>>
  /\ qdrant \in {<<>>, <<ForeignPayload>>}
  /\ AskIdle /\ ReqIdle /\ BackendIdle /\ ExtIdle

DocsNext ==
  \/ \E f \in Files : InsertTables(f)
  \/ \E f \in Files : InsertVectors(f)
  \/ \E f \in Files : DeleteDocument(f)
  \/ DeleteReturn

SpecDocs == DocsInit /\ [][DocsNext]_vars

\* --------------------------------------------------------------- C23
\* The files that have a record in the table store, a point in the index.
TableFiles(records) == {records[i].source_filename : i \in 1..Len(records)}
PointFiles(points) ==
  {PyGet(points[i], "source_filename") : i \in 1..Len(points)} \ {None}

\* C23 as stated: when delete_document(f) returns success, neither the table
\* store nor the vector index holds a record with source_filename f.
C23_AsStated ==
  [][(ret = None /\ ret' # None /\ ret'[1].status = "success") =>
       /\ args'[1].filename \notin TableFiles(mongo')
       /\ Some(args'[1].filename) \notin PointFiles(qdrant')]_vars

\* ------------------------------------------------ /api/search endpoints
MaxLimit == 6       \* largest limit of a search request (the schema: 1..20)

\* What the stores hold: n points with distinct texts, m tables of two files.
StoredPoints(n) ==
  [i \in 1..n |-> [text |-> <<"chunk", ToString(i)>>, source_filename |-> "X.pdf",
                   chunk_index |-> i - 1]]
StoredTables(m) ==
  [i \in 1..m |-> [table_id |-> i - 1,
                   source_filename |-> IF i % 3 = 0 THEN "Y.pdf" ELSE "X.pdf"]]

\* vector_search: the items of the response.
VectorSearchResult(result) ==
  [text |-> Take(PyGetOr(result, "text", <<>>), 500),
   filename |-> PyGetOr(result, "filename", "unknown"),
   score |-> PyGetOr(result, "score", 0)]
\* table_search: the items of the response.
TableSearchResult(result) ==
  [table_data |-> PyGetOr(result, "table", ""),
   filename |-> PyGetOr(result, "filename", "unknown"),
   table_index |-> PyGetOr(result, "table_index", 0)]

\* vector_search: search_vectors(query), optimize with max_results = limit,
\* deduplicate, format; an exception becomes HTTP 500.
VectorSearch(limit) ==
  /\ ret = None
  /\ args' = Some([endpoint |-> "vectors", limit |-> limit, file_filter |-> None])
  /\ \/ \E rs \in VectorSearchResults(qdrant) :
          LET optimized_results == optimize_vector_search_results(rs, limit, 0)
              deduped_results == deduplicate_results(optimized_results, "text")
          IN ret' = Some([status |-> "200",
                          results |-> [i \in 1..Len(deduped_results) |->
                                         VectorSearchResult(deduped_results[i])]])
     \/ ret' = Some([status |-> "500", results |-> <<>>])
  /\ UNCHANGED <<now, cacheVars, storeVars, askVars, prompt, reqVars, backendVars,
                 ingestVars, pipeVars>>

\* table_search: search_tables(query, file_filter), results[:limit], format;
\* an exception becomes HTTP 500.
TableSearch(f, limit) ==
  /\ ret = None
  /\ args' = Some([endpoint |-> "tables", limit |-> limit, file_filter |-> f])
  /\ \/ LET results == Take(search_tables(mongo, f), limit)
        IN ret' = Some([status |-> "200",
                        results |-> [i \in 1..Len(results) |->
                                       TableSearchResult(results[i])]])
     \/ ret' = Some([status |-> "500", results |-> <<>>])
  /\ UNCHANGED <<now, cacheVars, storeVars, askVars, prompt, reqVars, backendVars,
                 ingestVars, pipeVars>>

\* The response of a search has been sent.
SearchReturn ==
  /\ ret # None
  /\ args' = None /\ ret' = None
  /\ UNCHANGED <<now, cacheVars, storeVars, askVars, prompt, reqVars, backendVars,
                 ingestVars, pipeVars>>

SearchInit ==
  /\ now = 1
  /\ cache = <<>> /\ max_entries = MaxEntries
  /\ lastOp = NoOp /\ watched = "k1" /\ lastSet = None
  /\ \E n \in 0..MaxLimit : qdrant = StoredPoints(n)
  /\ \E m \in 0..MaxLimit : mongo = StoredTables(m)
  /\ AskIdle /\ ReqIdle /\ BackendIdle /\ ExtIdle

SearchNext ==
  \/ \E limit \in 1..MaxLimit : VectorSearch(limit)
  \/ \E f \in {None, Some("X.pdf")}, limit \in 1..MaxLimit : TableSearch(f, limit)
  \/ SearchReturn

SpecSearch == SearchInit /\ [][SearchNext]_vars

\* --------------------------------------------------------------- C24
\* The stored tables a table search with filter f matches.
Matching(tables, f) ==
  IF f = None THEN tables
  ELSE SelectSeq(tables, LAMBDA t : t.source_filename = f[1])

\* C24 as stated: a search that succeeds returns limit results when at least
\* limit matching records are stored, and all stored matches otherwise.
C24_AsStated ==
  (ret # None /\ ret[1].status = "200") =>
    Len(ret[1].results) =
      Min(args[1].limit,
          IF args[1].endpoint = "vectors" THEN Len(qdrant)
          ELSE Len(Matching(mongo, args[1].file_filter)))

\* --------------------------------------------------------------- C25
\* s is an initial part of t.
IsPrefix(s, t) == Len(s) <= Len(t) /\ s = SubSeq(t, 1, Len(s))
AskCallOrder == <<"vector", "table", "llm">>

\* C25: the calls of one ask are one vector search, then one table search,
\* then at most one LLM call; an ask that returned made all three, and an ask
\* left by an exception of a store made no second attempt and no LLM call.
C25_CallOrder ==
  /\ IsPrefix(calls, AskCallOrder)
  /\ askPc = "search_tables" => calls = <<"vector">>
  /\ askPc = "llm" => calls = <<"vector", "table">>
  /\ askPc = "returned" => calls = AskCallOrder
  /\ askPc = "raised" => calls \in {<<"vector">>, <<"vector", "table">>}
\* The table search raised after the vector search returned.
C25_Witness ==
  askPc = "raised" /\ calls = <<"vector", "table">> /\ llm = "none" /\ answer = None

\* --------------------------------------------------------------- C26
\* The elements tagged as a narrative-text variant whose trimmed text is not
\* empty and triggers no table-likeness rule.
NarrativeKept(els) ==
  Indices(els, LAMBDA i : /\ els[i].kind \in supported_text_types
                           /\ Strip(els[i].text) # <<>>
                           /\ ~is_table_like_text(Strip(els[i].text)))

\* C26 as stated: the text output of process_pdf is exactly, in element order,
\* the trimmed text of each narrative-text-variant element whose trimmed text
\* is non-empty and triggers none of the five table-likeness rules.
C26_AsStated ==
  Returned =>
    process_result[1].text_to_embed =
      [j \in 1..Len(NarrativeKept(elements)) |->
         Strip(elements[NarrativeKept(elements)[j]].text)]

\* ------------------------------------------------------ process_directory
MaxFiles == 3       \* most files the directory lists

\* The files of the directory, and what partition_pdf can return for a file.
DirectoryFiles == Take(<<"X.pdf", "Y.pdf", "Z.pdf", "W.pdf">>, MaxFiles)
DirectoryDocs ==
  {<<>>,
   <<[kind |-> "Table", text |-> TextPlain, text_as_html |-> HtmlOf(TextPlain)]>>,
   <<[kind |-> "NarrativeText", text |-> TextPadded],
     [kind |-> "Table", text |-> TextDates, text_as_html |-> HtmlOf(TextDates)]>>,
   <<[kind |-> "NarrativeText", text |-> TextMarked]>>}

\* process_directory, one iteration of its loop: the one processor handles
\* the next file; its result is stored under the file's name, or process_pdf
\* raises before its passes and the file is skipped.
DirectoryFile(els, outcome) ==
  LET pdf_file == Head(pdf_files)
      tables == FirstPass(els)
      texts == SecondPass(els)
  IN /\ pdf_files # <<>>
     /\ pdf_files' = Tail(pdf_files)
     /\ IF outcome = "ok"
          THEN /\ elements' = els
               /\ table_locations' = ResetLocations(table_locations) \o TableLocations(els)
               /\ process_result' = Some([raised |-> None, tables_to_store |-> tables,
                                          text_to_embed |-> texts])
               /\ handled' = Append(handled, [file |-> pdf_file, elements |-> els,
                                              tables |-> tables, texts |-> texts])
          ELSE /\ process_result' = Raised("PartitionError")
               /\ UNCHANGED <<elements, table_locations, handled>>
     /\ UNCHANGED <<pdfPc, pdf_args, partition_calls, fnVars>>
     /\ UNCHANGED <<now, cacheVars, storeVars, askVars, prompt, reqVars, backendVars>>

DirectoryInit ==
  /\ now = 1
  /\ cache = <<>> /\ max_entries = MaxEntries
  /\ lastOp = NoOp /\ watched = "k1" /\ lastSet = None
  /\ StoreIdle /\ AskIdle /\ ReqIdle /\ BackendIdle /\ IngestIdle /\ FnIdle
  /\ pdf_files = DirectoryFiles
  /\ handled = <<>>

DirectoryNext ==
  \E els \in DirectoryDocs, outcome \in {"ok", "raises"} : DirectoryFile(els, outcome)

SpecDirectory == DirectoryInit /\ [][DirectoryNext]_vars

C28_AsStated ==
  (reqPc = "done" /\ ~wrote /\ response # None) =>
    <<req.question, req.file_filter>> \in fresh

\* ----------------------------------------------- the pipeline, run again
MaxRuns == 2        \* most runs of the pipeline over the data directory

\* The data directory, the same at every run, and what its files hold.
Listing == <<"X.pdf", "Y.pdf">>
DataDirectory(pdf_file) ==
  IF pdf_file = "X.pdf"
    THEN <<[kind |-> "NarrativeText", text |-> TextPlain],
           [kind |-> "Table", text |-> TextDates, text_as_html |-> HtmlOf(TextDates)]>>
    ELSE <<[kind |-> "NarrativeText", text |-> TextPadded]>>

\* QdrantConnector.setup_collection: recreate_collection drops the points; an
\* exception of the call is printed and the collection stays as it is.
setup_collection(points, recreated) == IF recreated THEN <<>> ELSE points

\* main up to its loop: the collection is set up and the directory is listed.
RunStart(recreated) ==
  /\ pdf_files = <<>>
  /\ Len(handled) < MaxRuns * Len(Listing)
  /\ qdrant' = setup_collection(qdrant, recreated)
  /\ pdf_files' = Listing
  /\ UNCHANGED <<mongo, handled, ingestVars, fnVars>>
  /\ UNCHANGED <<now, cacheVars, askVars, prompt, reqVars, backendVars>>

\* main, one iteration of its loop over the unchanged directory.
RunFile(outcome) ==
  /\ pdf_files # <<>>
  /\ PipelineFile(DataDirectory(Head(pdf_files)), outcome)

RerunInit ==
  /\ now = 1
  /\ cache = <<>> /\ max_entries = MaxEntries
  /\ lastOp = NoOp /\ watched = "k1" /\ lastSet = None
  /\ StoreIdle /\ AskIdle /\ ReqIdle /\ BackendIdle /\ IngestIdle /\ FnIdle
  /\ pdf_files = <<>>
  /\ handled = <<>>

RerunNext ==
  \/ \E recreated \in BOOLEAN : RunStart(recreated)
  \/ \E outcome \in PipelineOutcomes : RunFile(outcome)

SpecRerun == RerunInit /\ [][RerunNext]_vars

\* --------------------------------------------------------------- C29
\* C29 as stated: after any number of runs the table store holds one record
\* for each (source_filename, table_id) and the vector index one point for
\* each chunk of a file.
C29_AsStated ==
  (pdf_files = <<>> /\ handled # <<>>) =>
    /\ \A i, j \in 1..Len(mongo) :
         (/\ mongo[i].source_filename = mongo[j].source_filename
          /\ mongo[i].table_id = mongo[j].table_id) => i = j
    /\ \A i, j \in 1..Len(qdrant) :
         (/\ qdrant[i].source_filename = qdrant[j].source_filename
          /\ qdrant[i].chunk_index = qdrant[j].chunk_index) => i = j

\* --------------------------------------------------------------- C30
\* C30 as stated: a set on a key that is already present leaves the entry of
\* every other key as it was and the number of entries as it was, also when
\* the cache is full.
C30_AsStated ==
  [][(lastOp'.op = "set" /\ lastOp'.had) =>
       /\ Len(cache') = Len(cache)
       /\ \A i \in 1..Len(cache) :
            cache[i].key # lastOp'.key =>
              /\ DictHas(cache', cache[i].key)
              /\ DictGet(cache', cache[i].key) = cache[i]]_vars

====
